---- MODULE Spec2Model ----
(***************************************************************************)
(* Globe scene renderer of the portfolio page, in its two script variants: *)
(*   "random" - src/unnamed/part_000 (uniform-random node distribution)    *)
(*   "fib"    - src/unnamed/part_002 (Fibonacci-sphere node distribution)  *)
(*                                                                         *)
(* Fixed-point units used for the script's floating-point quantities:      *)
(*   lengths and coordinates   1 = 0.001      (radius 1.005 is 1005)       *)
(*   time, phases, speeds      1 = 0.001                                   *)
(*   rotation angles           1 = 0.00001 rad                             *)
(*   node scale                1 = 0.00001                                 *)
(*   pointer offset mouseX/Y   1 = 0.001      (one pixel)                  *)
(* Indices are 0-based as in the script; sequence element k of the script  *)
(* is element k + 1 of the TLA+ sequence.                                  *)
(***************************************************************************)
EXTENDS Integers, Sequences, FiniteSets

(***************************************************************************)
(* Sizes.  The script's counts are scaled down; every formula below is     *)
(* stated in terms of these names.                                         *)
(***************************************************************************)
\* nodeCount: 600 (part_000:53), 1200 (part_002:83)
nodeCount == 3
\* maxConnections: 800 (part_000:101)
maxConnections == 1
\* longArcCount: 20 (part_000:157)
longArcCount == 1
\* arcCount: 30 (part_002:151)
arcCount == 1
\* candidate partners sampled per node: 30 (part_002:131)
samplesPerNode == 2
\* the literal 4 of "connections > 4" (part_002:143)
breakAfter == 0
\* half of the index window of 200 (part_002:132)
halfWindow == 2
\* number of frame callbacks explored
MaxFrames == 4

\* retry budget of the long-arc selection (part_000:165)
maxAttempts == 10

(***************************************************************************)
(* Geometry.  Node positions are lattice points of the sphere of radius    *)
(* 1005 (x^2 + y^2 + z^2 = 1005^2 exactly).                                *)
(***************************************************************************)
SiteA == <<0, 0, 1005>>
SiteB == <<-100, -5, 1000>>
SiteC == <<-419, -100, 908>>
SiteE == <<0, 0, -1005>>
SiteD == <<0, -1005, 0>>

\* THREE.Vector3.distanceToSquared
DistSq(p, q) ==
  (p[1] - q[1]) * (p[1] - q[1]) + (p[2] - q[2]) * (p[2] - q[2])
    + (p[3] - q[3]) * (p[3] - q[3])

\* p.distanceTo(q) < limit, compared on the squares
DistBelow(p, q, limit) == DistSq(p, q) < limit * limit

\* p.distanceTo(q) > limit, compared on the squares
DistAbove(p, q, limit) == DistSq(p, q) > limit * limit

\* distance thresholds
shortThreshold == 500
fibThreshold == 350
longThreshold == 1200
fibLongThreshold == 1000

(***************************************************************************)
(* Math.sin on fixed-point arguments: Bhaskara's rational approximation    *)
(* on [0, pi], odd symmetry on (pi, 2 pi), period 2 pi.                    *)
(***************************************************************************)
PiMilli == 3142

SinHalf(x) ==
  (16 * x * (PiMilli - x)) \div ((5 * PiMilli * PiMilli - 4 * x * (PiMilli - x)) \div 1000)

SinMilli(a) ==
  LET x == a % (2 * PiMilli)
  IN  IF x <= PiMilli THEN SinHalf(x) ELSE 0 - SinHalf(x - PiMilli)

\* integer quotient rounded toward zero
Trunc(a, b) == IF a >= 0 THEN a \div b ELSE 0 - ((0 - a) \div b)

(***************************************************************************)
(* Great-circle interpolation.  A point of a curve is a record             *)
(*   nan - some coordinate is NaN                                          *)
(*   dir - the direction of the point as a primitive integer vector, the   *)
(*         zero vector when the point is the origin.                       *)
(* Vector3.normalize() returns the unit vector of a non-zero vector and    *)
(* leaves the zero vector and NaN as they are.                             *)
(***************************************************************************)
\* ringCount: 2 (part_000:277); dotBase: the 4 of dotCount (part_000:305)
ringCount == 2
dotBase == 1

\* number of interpolation steps: steps = 15 (part_000:114), arcSteps = 25
\* (part_000:175), steps = 12 (part_000:433), segments = 40 (part_002:156)
steps == 2
arcSteps == 3
frameSteps == 2
segments == 2

\* altitude factors of the short connections and of the long arcs
shortAltitude == 1004
longAltitude == 1006

\* pos1.dot(pos2), 1 = 0.000001
Dot(p, q) == p[1] * q[1] + p[2] * q[2] + p[3] * q[3]

\* Math.acos returns NaN outside [-1, 1]
AcosIsNaN(p, q) == Dot(p, q) > 1000000 \/ Dot(p, q) < -1000000

\* Math.cos through the sine
CosMilli(a) == SinMilli(a + PiMilli \div 2)

\* Math.acos on [-1, 1] by bisection on the cosine, exact at the two ends.
\* An intermediate value is bound as the element of a one-element set, so
\* that it is computed once where it is used more than once.
RECURSIVE AcosBisect(_, _, _)
AcosBisect(d, lo, hi) ==
  IF hi - lo <= 1
    THEN IF CosMilli(lo) - d <= d - CosMilli(hi) THEN lo ELSE hi
    ELSE CHOOSE r \in {IF CosMilli(mid) > d THEN AcosBisect(d, mid, hi)
                                             ELSE AcosBisect(d, lo, mid) :
                        mid \in {(lo + hi) \div 2}} : TRUE

AcosMilli(d) ==
  IF d >= 1000 THEN 0 ELSE IF d <= -1000 THEN PiMilli ELSE AcosBisect(d, 0, PiMilli)

\* angle = Math.acos(pos1.dot(pos2)), defined when the dot product is in range
AngleOf(p, q) == AcosMilli(Trunc(Dot(p, q), 1000))

Abs(a) == IF a >= 0 THEN a ELSE 0 - a

RECURSIVE Gcd(_, _)
Gcd(a, b) == IF b = 0 THEN a ELSE CHOOSE r \in {Gcd(b, m) : m \in {a % b}} : TRUE

\* the direction of vector v
Primitive(v) ==
  LET g == Gcd(Gcd(Abs(v[1]), Abs(v[2])), Abs(v[3]))
  IN  IF g = 0 THEN v ELSE <<Trunc(v[1], g), Trunc(v[2], g), Trunc(v[3], g)>>

NaNPoint == [nan |-> TRUE, dir |-> <<0, 0, 0>>]

\* new Vector3().addScaledVector(p, a).addScaledVector(q, b).normalize()
Normalized(p, a, q, b) ==
  [nan |-> FALSE,
   dir |-> Primitive(<<a * p[1] + b * q[1], a * p[2] + b * q[2], a * p[3] + b * q[3]>>)]

\* part_000:123-124, 183-184, 441-442: a and b at t = k / n
SlerpWeights(angle, k, n) ==
  << (SinMilli(((n - k) * angle) \div n) * 1000) \div SinMilli(angle),
     (SinMilli((k * angle) \div n) * 1000) \div SinMilli(angle) >>

\* part_000:119-129: the point at t = k / n of the curve from p to q
SlerpPoint(p, q, k, n) ==
  IF AcosIsNaN(p, q)
    THEN NaNPoint
    ELSE CHOOSE r \in {Normalized(p, w[1], q, w[2]) :
                        w \in {SlerpWeights(angle, k, n) : angle \in {AngleOf(p, q)}}} :
           TRUE

\* sinAngle, defined when the dot product is in range
SinAngle(p, q) == SinMilli(AngleOf(p, q))

\* part_000:116-132 and 177-194: "if (sinAngle < 0.001) continue" is not
\* taken when sinAngle is NaN
BuildCurve(p, q, n) ==
  IF ~AcosIsNaN(p, q) /\ SinAngle(p, q) < 1
    THEN <<>>
    ELSE [k \in 1..(n + 1) |-> SlerpPoint(p, q, k - 1, n)]

\* part_000:436-451: "if (sinAngle > 0.001)" is not taken when sinAngle is NaN
FrameCurve(p, q, n) ==
  IF ~AcosIsNaN(p, q) /\ SinAngle(p, q) > 1
    THEN [k \in 1..(n + 1) |-> SlerpPoint(p, q, k - 1, n)]
    ELSE <<>>

\* part_002:158-170: copy(p1).lerp(p2, t).normalize() at t = k / n
LerpPoint(p, q, k, n) == Normalized(p, n - k, q, k)

ArcCurve(p, q, n) == [k \in 1..(n + 1) |-> LerpPoint(p, q, k - 1, n)]

\* part_000:68-82, the draws of one pass of the node loop: a position, a
\* pulsePhase in [0, 2 pi) and a pulseSpeed in [0.3, 0.7)
NodeDrawSeq ==
  << [site |-> SiteA, pulsePhase |-> 0, pulseSpeed |-> 500],
     [site |-> SiteB, pulsePhase |-> 1571, pulseSpeed |-> 300],
     [site |-> SiteC, pulsePhase |-> 4000, pulseSpeed |-> 650],
     [site |-> SiteE, pulsePhase |-> 6000, pulseSpeed |-> 400] >>

NodeDraws == {NodeDrawSeq[k] : k \in 1..Len(NodeDrawSeq)}

\* material colours: part_000:41, part_002:47, part_000:996-997
earthColorRandom == 659226
earthColorFib == 328965
fallbackColor == 2241535
fallbackEmissive == 1122884

\* window.innerWidth / innerHeight and the pointer positions explored
innerWidth == 800
innerHeight == 600
ClientXs == {300, 400, 500}
ClientYs == {300, 400}
WinSizes == {<<innerWidth, innerHeight>>, <<600, 600>>}

\* text of the form's button in the page, and the acknowledgment
sendLabel == "Send Message"
sentLabel == "Message Sent!"

VARIABLES
  variant,        \* which script runs on the page
  three,          \* typeof THREE !== 'undefined'
  threeAtEval,    \* value of that test when the script was evaluated
  pc,             \* position of the running script or handler; "idle" = event loop
  caller,         \* what invoked initEarth: "script" or "load"
  warnings,       \* number of console.warn calls
  enhancements,   \* cursor trail, navigation, typing effect, form handler installed
  deferredInit,   \* part_002: load listener that retries initEarth is registered
  loadFired,      \* the window load event has been dispatched
  initRuns,       \* number of times initEarth has been entered
  earth,          \* part_000: global earth is assigned
  nodePositions,  \* nodePositions array
  connections,    \* part_000: connections array (short connections, then long arcs)
  linePoints,     \* part_002: linePoints array (two entries per segment)
  arcLines,       \* part_002: arcLines array
  loopI, loopJ,   \* loop counters of the build loop being executed
  connectionCount,\* part_000: connectionCount; part_002: per-node "connections"
  idx1, idx2, attempts, \* part_000: locals of the long-arc selection
  frameCount,     \* part_000: frameCount; part_002: number of animate calls
  time,           \* global time accumulator
  rotY,           \* earth.rotation.y / earthGroup.rotation.y
  rotX,           \* part_002: earthGroup.rotation.x
  nodeScale,      \* part_000: scale written into each node's instance matrix
  emissiveIntensity, \* part_000: nodeInstances.material.emissiveIntensity
  rafPending,     \* number of pending requestAnimationFrame(animate) callbacks
  windowHalfX, windowHalfY, \* part_002: constants captured by initEarth
  mouseX, mouseY, \* part_002: pointer offset
  client,         \* part_002: clientX, clientY of the last mousemove event
  mouseSum,       \* history: sum of mouseX over the frames run
  texture,        \* texture load: "none", "timer", "loading", "loaded", "failed"
  uncaught,       \* number of exceptions thrown out of callbacks
  earthColor, earthEmissive, earthMap, \* globe material
  curves,         \* point list of each entry of connections (part_000) or of
                  \* arcLines (part_002), with the rotation it was computed at
  nodeView,       \* position written for each node, as base position and rotation
  satellites,     \* part_000: the satellite dots (userData and mesh position)
  renders,        \* number of renderer.render calls
  renderedSize,   \* render surface size used by the last render
  winSize,        \* <<window.innerWidth, window.innerHeight>>
  cameraAspect,   \* camera.aspect, 1 = 0.001
  rendererSize,   \* size given to renderer.setSize
  bodyLoaded,     \* document.body carries the class 'loaded'
  cursorDotHidden,\* cursorDot.style.display is 'none'
  bodyCursorAuto, \* document.body.style.cursor is 'auto'
  loadNavRan,     \* the load handler has called setActiveNavLink
  loadThrew,      \* the load handler ended with an exception
  wordIndex, charIndex, isDeleting, \* globals of the typing effect
  typingText,     \* typingText.textContent, a sequence of characters
  typeTimers,     \* number of pending timeouts that run typeEffect
  hamburgerActive,\* hamburger carries the class 'active'
  navLinksActive, \* navLinksContainer carries the class 'active'
  buttonText,     \* text of the span of the form's button
  buttonBackground, \* the button's inline background: "" or "green"
  formFilled,     \* the form holds input that reset() would clear
  formTimers,     \* originalText captured by each pending 3 s timeout, oldest first
  submitCount,    \* number of submit events so far
  ticking,        \* global ticking
  scrollRaf,      \* number of pending requestAnimationFrame(updateOnScroll)
  navRunsInFrame, \* calls of setActiveNavLink by scroll handling since the last frame
  scrollsInFrame, \* scroll events since the last frame
  trailOpacity,   \* style.opacity of each trail dot, 1 = 0.001
  pointerOutside, \* the last pointer event was the document's mouseleave
  hovering,       \* the pointer is over an interactive element
  cursorRaf       \* number of pending requestAnimationFrame(animateCursor)

vars == <<variant, three, threeAtEval, pc, caller, warnings, enhancements,
          deferredInit, loadFired, initRuns, earth, nodePositions, connections,
          linePoints, arcLines, loopI, loopJ, connectionCount, idx1, idx2,
          attempts, frameCount, time, rotY, rotX, nodeScale, emissiveIntensity,
          rafPending, windowHalfX, windowHalfY, mouseX, mouseY, client,
          mouseSum,
          texture, uncaught, earthColor, earthEmissive, earthMap, curves,
          nodeView, satellites, renders, renderedSize, winSize, cameraAspect,
          rendererSize, bodyLoaded, cursorDotHidden, bodyCursorAuto, loadNavRan,
          loadThrew, wordIndex, charIndex, isDeleting, typingText, typeTimers,
          hamburgerActive, navLinksActive, buttonText, buttonBackground,
          formFilled, formTimers, submitCount, ticking, scrollRaf,
          navRunsInFrame, scrollsInFrame, trailOpacity, pointerOutside,
          hovering, cursorRaf>>

loadVars == <<bodyLoaded, cursorDotHidden, bodyCursorAuto, loadNavRan, loadThrew>>
typeVars == <<wordIndex, charIndex, isDeleting, typingText, typeTimers>>
menuVars == <<hamburgerActive, navLinksActive>>
formVars == <<buttonText, buttonBackground, formFilled, formTimers, submitCount>>
scrollVars == <<ticking, scrollRaf, navRunsInFrame, scrollsInFrame>>
cursorVars == <<trailOpacity, pointerOutside, hovering, cursorRaf>>
uiVars == <<loadVars, typeVars, menuVars, formVars, scrollVars, cursorVars>>
\* the state of the globe and of the script
globeVars == <<variant, three, threeAtEval, pc, caller, warnings, enhancements,
               deferredInit, loadFired, initRuns, earth, nodePositions,
               connections, linePoints, arcLines, loopI, loopJ, connectionCount,
               idx1, idx2, attempts, frameCount, time, rotY, rotX, nodeScale,
               emissiveIntensity, rafPending, windowHalfX, windowHalfY, mouseX,
               mouseY, client, mouseSum, texture, uncaught, earthColor,
               earthEmissive,
               earthMap, curves, nodeView, satellites, renders, renderedSize,
               winSize, cameraAspect, rendererSize>>

pageVars == <<warnings, enhancements, deferredInit, loadFired>>
netVars == <<nodePositions, connections, linePoints, arcLines>>
loopVars == <<loopI, loopJ, connectionCount, idx1, idx2, attempts>>
frameVars == <<frameCount, time, rotY, rotX, nodeScale, emissiveIntensity,
               rafPending, mouseSum, nodeView, satellites, renders, renderedSize>>
viewVars == <<winSize, cameraAspect, rendererSize>>
mouseVars == <<windowHalfX, windowHalfY, mouseX, mouseY, client>>
texVars == <<texture, uncaught, earthColor, earthEmissive, earthMap>>

(***************************************************************************)
(* State when the script starts to be evaluated.                           *)
(***************************************************************************)
Init ==
  /\ variant \in {"random", "fib"}
  /\ three \in BOOLEAN
  /\ threeAtEval = three
  /\ pc = "guard"
  /\ caller = "script"
  /\ warnings = 0
  /\ enhancements = FALSE
  /\ deferredInit = FALSE
  /\ loadFired = FALSE
  /\ initRuns = 0
  /\ earth = FALSE
  /\ nodePositions = <<>>
  /\ connections = <<>>
  /\ linePoints = <<>>
  /\ arcLines = <<>>
  /\ loopI = 0
  /\ loopJ = 0
  /\ connectionCount = 0
  /\ idx1 = 0
  /\ idx2 = 0
  /\ attempts = 0
  /\ frameCount = 0
  /\ time = 0
  /\ rotY = 0
  /\ rotX = 0
  /\ nodeScale = <<>>
  /\ emissiveIntensity = 1500
  /\ rafPending = 0
  /\ windowHalfX = 0
  /\ windowHalfY = 0
  /\ mouseX = 0
  /\ mouseY = 0
  /\ client = <<0, 0>>
  /\ mouseSum = 0
  /\ texture = "none"
  /\ uncaught = 0
  /\ earthColor = 0
  /\ earthEmissive = 0
  /\ earthMap = FALSE
  /\ curves = <<>>
  /\ nodeView = <<>>
  /\ satellites = <<>>
  /\ renders = 0
  /\ renderedSize = <<0, 0>>
  /\ winSize = <<innerWidth, innerHeight>>
  /\ cameraAspect = 0
  /\ rendererSize = <<0, 0>>
  /\ bodyLoaded = FALSE
  /\ cursorDotHidden = FALSE
  /\ bodyCursorAuto = FALSE
  /\ loadNavRan = FALSE
  /\ loadThrew = FALSE
  /\ wordIndex = 0
  /\ charIndex = 0
  /\ isDeleting = FALSE
  /\ typingText = <<>>
  /\ typeTimers = 0
  /\ hamburgerActive = FALSE
  /\ navLinksActive = FALSE
  /\ buttonText = sendLabel
  /\ buttonBackground = ""
  /\ formFilled = FALSE
  /\ formTimers = <<>>
  /\ submitCount = 0
  /\ ticking = FALSE
  /\ scrollRaf = 0
  /\ navRunsInFrame = 0
  /\ scrollsInFrame = 0
  /\ trailOpacity = <<>>
  /\ pointerOutside = FALSE
  /\ hovering = FALSE
  /\ cursorRaf = 0

(***************************************************************************)
(* Helpers on the arrays.                                                  *)
(***************************************************************************)
\* nodePositions[k].basePosition (part_000), nodePositions[k] (part_002)
PosOf(k) == nodePositions[k + 1].basePosition

\* positions already given to a node
UsedSites == {nodePositions[k].basePosition : k \in 1..Len(nodePositions)}

\* part_002:95-101, the spiral position of node k: a table at model scale
FibSite(k) ==
  CASE k % 4 = 0 -> SiteA
    [] k % 4 = 1 -> SiteB
    [] k % 4 = 2 -> SiteD
    [] OTHER -> SiteC

(***************************************************************************)
(* The frame updater animate().                                            *)
(***************************************************************************)
\* Math.sin(time * pulseSpeed + pulsePhase) * 0.4 + 0.6 at time t
Pulse(t, node) ==
  (SinMilli((t * node.pulseSpeed) \div 1000 + node.pulsePhase) * 4) \div 10 + 600

\* 1.5 * (Math.sin(time * 0.8) * 0.3 + 0.7) at time t
GlobalEmissive(t) ==
  (15 * ((SinMilli((t * 8) \div 10) * 3) \div 10 + 700)) \div 10

\* part_000:376-379, scale of node k (1-based) written on a frame
NodeScaleAt(k, updatePulse, t) ==
  IF updatePulse THEN Pulse(t, nodePositions[k]) ELSE 1000

\* per-frame steps: time += 0.01 / 0.005, rotation.y += 0.002 / 0.0008, and
\* the factor 0.08 applied to mouseX
timeStepRandom == 10
timeStepFib == 5
rotationStepRandom == 200
rotationStepFib == 80
pointerGain == 8

\* part_000:358, part_002:257
TimeStep(v) == IF v = "random" THEN timeStepRandom ELSE timeStepFib

\* fault injection: the pointer offset is left out of the rotation
RotationStepNoPointer(v, mx) ==
  IF v = "random" THEN rotationStepRandom ELSE rotationStepFib

\* part_000:361, part_002:263-264
RotationStep(v, mx) ==
  IF v = "random" THEN rotationStepRandom ELSE rotationStepFib + pointerGain * mx

\* fault injection: the x rotation moves by twice its distance to the target
SmoothedXOvershoot(rx, my) == rx + 2 * (5 * my - rx)

\* part_002:265: rotation.x += (mouseY * 0.05 - rotation.x) * 0.05
SmoothedX(rx, my) == rx + Trunc((5 * my - rx) * 5, 100)

\* ring radius 1.3 + ringIndex * 0.2, inclination (r - 1) * Math.PI * 0.15 and
\* the factor 0.01 applied to a dot's speed
ringRadiusBase == 1300
ringRadiusStep == 200
inclinationStep == 471
satelliteStep == 10

\* part_000:401-403, the point at angle (1 = 0.00001 rad) of the ring
RingPoint(ringIndex, inclination, angle) ==
  LET r == ringRadiusBase + ringIndex * ringRadiusStep
      a == angle \div 100
  IN  << Trunc(CosMilli(a) * r, 1000),
         Trunc(Trunc(SinMilli(a) * CosMilli(inclination), 1000) * r, 1000),
         Trunc(Trunc(SinMilli(a) * SinMilli(inclination), 1000) * r, 1000) >>

\* fault injection: the dots move on every frame
SatelliteDueAlways(count) == TRUE

\* part_000:395
SatelliteDue(count) == count % 2 = 0

\* part_000:397-408, one dot on a frame that updates the dots
MoveDot(dot) ==
  LET a == dot.angle + (dot.speed * satelliteStep) \div 10
  IN  [dot EXCEPT !.angle = a,
                  !.position = RingPoint(dot.ringIndex, dot.inclination, a)]

\* part_000:424-451: the curve of connection conn at y rotation `rotation`;
\* both endpoints are turned by the same angle, which leaves their dot
\* product as it is, and the points are given in the turned frame
RecomputedCurve(conn, rotation) ==
  [points |-> FrameCurve(nodePositions[conn.node1 + 1].basePosition,
                         nodePositions[conn.node2 + 1].basePosition, frameSteps),
   angle |-> rotation,
   altitude |-> IF conn.isLongArc THEN longAltitude ELSE shortAltitude]

\* part_000:423
CurvesDue(count) == count % 3 = 0

\* fault injection: a node is written at its unrotated base position
NodeViewUnrotated(k, rotation) ==
  [base |-> nodePositions[k].basePosition, angle |-> 0]

\* part_000:372-373 and 381: basePosition.clone() turned about the y axis
NodeViewAt(k, rotation) ==
  [base |-> nodePositions[k].basePosition, angle |-> rotation]

\* fault injection: a frame exchanges the two endpoints of every connection
ConnectionsAfterFrameSwapped(conns) ==
  [k \in 1..Len(conns) |->
     [conns[k] EXCEPT !.node1 = conns[k].node2, !.node2 = conns[k].node1]]

\* part_000:415-453: the passes over connections read userData and write
\* only material.opacity and the geometry
ConnectionsAfterFrame(conns) == conns

\* part_000:355-475 and part_002:254-312: one call of animate(), apart from
\* its requestAnimationFrame(animate)
AnimateBody ==
  /\ frameCount' = frameCount + 1
  /\ time' = time + TimeStep(variant)
  /\ rotY' = rotY + RotationStep(variant, mouseX)
  /\ mouseSum' = mouseSum + mouseX
  /\ renders' = renders + 1
  /\ renderedSize' = rendererSize
  /\ connections' = ConnectionsAfterFrame(connections)
  /\ IF variant = "random"
       THEN /\ rotX' = rotX
            /\ nodeScale' = [k \in 1..Len(nodePositions) |->
                               NodeScaleAt(k, (frameCount + 1) % 2 = 0, time + TimeStep(variant))]
            /\ nodeView' = [k \in 1..Len(nodePositions) |->
                              NodeViewAt(k, rotY + RotationStep(variant, mouseX))]
            /\ emissiveIntensity' =
                 IF (frameCount + 1) % 2 = 0
                   THEN GlobalEmissive(time + TimeStep(variant))
                   ELSE emissiveIntensity
            /\ satellites' =
                 IF SatelliteDue(frameCount + 1)
                   THEN [k \in 1..Len(satellites) |-> MoveDot(satellites[k])]
                   ELSE satellites
            /\ curves' =
                 IF CurvesDue(frameCount + 1)
                   THEN [k \in 1..Len(connections) |->
                           RecomputedCurve(connections[k],
                                           rotY + RotationStep(variant, mouseX))]
                   ELSE curves
       ELSE /\ rotX' = SmoothedX(rotX, mouseY)
            /\ UNCHANGED <<nodeScale, emissiveIntensity, nodeView, satellites,
                           curves>>

(***************************************************************************)
(* Script evaluation.                                                      *)
(***************************************************************************)
\* fault injection: the aspect ratio of the window at page load is kept
AspectAtLoad(size) == (innerWidth * 1000) \div innerHeight

\* window.innerWidth / window.innerHeight
Aspect(size) == (size[1] * 1000) \div size[2]

\* entry of initEarth(): scene, camera, renderer and the globe mesh
EnterInitEarth(from) ==
  /\ cameraAspect' = Aspect(winSize)
  /\ rendererSize' = winSize
  /\ pc' = "nodes"
  /\ caller' = from
  /\ initRuns' = initRuns + 1
  /\ earth' = (variant = "random")
  /\ earthColor' = IF variant = "random" THEN earthColorRandom ELSE earthColorFib
  /\ earthEmissive' = 0
  /\ earthMap' = FALSE

\* fault injection: initEarth is called without testing for THREE
ScriptGuardUnguarded ==
  /\ pc = "guard"
  /\ EnterInitEarth("script")
  /\ UNCHANGED <<variant, three, threeAtEval, pageVars, netVars, loopVars,
                 frameVars, mouseVars, texture, uncaught, winSize, curves>>
  /\ UNCHANGED uiVars

\* part_000:486-490 and part_002:325-332
ScriptGuard ==
  /\ pc = "guard"
  /\ IF three
       THEN /\ EnterInitEarth("script")
            /\ UNCHANGED pageVars
       ELSE /\ pc' = "enhance"
            /\ warnings' = IF variant = "random" THEN warnings + 1 ELSE warnings
            /\ deferredInit' = (variant = "fib")
            /\ UNCHANGED <<caller, initRuns, earth, earthColor, earthEmissive,
                           earthMap, enhancements, loadFired, cameraAspect,
                           rendererSize>>
  /\ UNCHANGED <<variant, three, threeAtEval, netVars, loopVars, frameVars,
                 mouseVars, texture, uncaught, winSize, curves>>
  /\ UNCHANGED uiVars

\* dotCount of part_000:499, the dots of the trail
trailCount == 2

\* part_000:553, 574: (dotCount - index) / dotCount * 0.5
FrameOpacity(index) == ((trailCount - index) * 500) \div trailCount

\* the opacities written by one run of animateCursor
FrameOpacities == [i \in 1..trailCount |-> FrameOpacity(i - 1)]

\* part_000:568: the opacity over an interactive element
hoverOpacity == 800

\* the rest of the script: part_000:495-1006, part_002:337-851
InstallEnhancements ==
  /\ pc = "enhance"
  /\ pc' = "idle"
  /\ enhancements' = TRUE
  /\ texture' = IF three THEN "timer" ELSE texture
  /\ UNCHANGED <<variant, three, threeAtEval, caller, warnings, deferredInit,
                 loadFired, initRuns, earth, netVars, loopVars, frameVars,
                 mouseVars, uncaught, earthColor, earthEmissive, earthMap,
                 curves, viewVars>>
  /\ typeTimers' = 1
  /\ trailOpacity' = FrameOpacities
  /\ cursorRaf' = 1
  /\ UNCHANGED <<wordIndex, charIndex, isDeleting, typingText>>
  /\ UNCHANGED <<pointerOutside, hovering>>
  /\ UNCHANGED <<loadVars, menuVars, formVars, scrollVars>>

(***************************************************************************)
(* initEarth of part_000: nodes, short connections, long arcs.             *)
(***************************************************************************)
buildFrame == <<variant, three, threeAtEval, caller, pageVars, initRuns, earth,
                frameVars, mouseVars, texVars>>

\* part_000:66-85
CreateNode(d) ==
  /\ pc = "nodes"
  /\ variant = "random"
  /\ Len(nodePositions) < nodeCount
  /\ d.site \notin UsedSites
  /\ nodePositions' = Append(nodePositions,
        [basePosition |-> d.site, pulsePhase |-> d.pulsePhase,
         pulseSpeed |-> d.pulseSpeed, index |-> Len(nodePositions)])
  /\ nodeScale' = Append(nodeScale, 100000)
  /\ nodeView' = Append(nodeView, [base |-> d.site, angle |-> 0])
  /\ UNCHANGED <<pc, connections, linePoints, arcLines, loopVars, variant,
                 three, threeAtEval, caller, pageVars, initRuns, earth,
                 frameCount, time, rotY, rotX, emissiveIntensity, rafPending,
                 mouseSum, satellites, renders, renderedSize, mouseVars,
                 texVars, curves, viewVars>>
  /\ UNCHANGED uiVars

\* part_000:86-102
NodesDone ==
  /\ pc = "nodes"
  /\ variant = "random"
  /\ Len(nodePositions) = nodeCount
  /\ pc' = "short"
  /\ loopI' = 0
  /\ loopJ' = 1
  /\ connectionCount' = 0
  /\ UNCHANGED <<netVars, idx1, idx2, attempts, buildFrame, curves, viewVars>>
  /\ UNCHANGED uiVars

\* fault injection: the inner loop does not test the cap
ShortPairGuardNoCap == loopI < nodeCount /\ loopJ < nodeCount

\* part_000:104-105, both loop conditions hold
ShortPairGuard ==
  /\ loopI < nodeCount /\ connectionCount < maxConnections
  /\ loopJ < nodeCount /\ connectionCount < maxConnections

\* fault injection: the random draw alone decides
ShortConnectsAnyDistance(a, b, draw) == draw

\* part_000:111
ShortConnects(a, b, draw) == DistBelow(PosOf(a), PosOf(b), shortThreshold) /\ draw

\* part_000:105-146, one pass of the inner loop body; draw: Math.random() > 0.85
ShortPair(draw) ==
  /\ pc = "short"
  /\ ShortPairGuard
  /\ IF ShortConnects(loopI, loopJ, draw)
       THEN /\ connections' = Append(connections,
                 [node1 |-> loopI, node2 |-> loopJ, isLongArc |-> FALSE])
            /\ connectionCount' = connectionCount + 1
            /\ curves' = Append(curves,
                 [points |-> BuildCurve(PosOf(loopI), PosOf(loopJ), steps),
                  angle |-> 0, altitude |-> shortAltitude])
       ELSE UNCHANGED <<connections, connectionCount, curves>>
  /\ loopJ' = loopJ + 1
  /\ UNCHANGED <<pc, nodePositions, linePoints, arcLines, loopI, idx1, idx2,
                 attempts, buildFrame, viewVars>>
  /\ UNCHANGED uiVars

\* part_000:104-105, the inner loop ends and the outer one advances
ShortNextRow ==
  /\ pc = "short"
  /\ loopI < nodeCount /\ connectionCount < maxConnections
  /\ ~(loopJ < nodeCount /\ connectionCount < maxConnections)
  /\ loopI' = loopI + 1
  /\ loopJ' = loopI + 2
  /\ UNCHANGED <<pc, netVars, connectionCount, idx1, idx2, attempts, buildFrame,
                 curves, viewVars>>
  /\ UNCHANGED uiVars

\* part_000:104, the outer loop ends; part_000:157-158
ShortDone ==
  /\ pc = "short"
  /\ ~(loopI < nodeCount /\ connectionCount < maxConnections)
  /\ pc' = "long"
  /\ loopI' = 0
  /\ UNCHANGED <<netVars, loopJ, connectionCount, idx1, idx2, attempts, buildFrame,
                 curves, viewVars>>
  /\ UNCHANGED uiVars

\* part_000:160-162; a, b: Math.floor(Math.random() * nodePositions.length)
LongArcPick(a, b) ==
  /\ pc = "long"
  /\ loopI < longArcCount
  /\ idx1' = a
  /\ idx2' = b
  /\ attempts' = 0
  /\ pc' = "retry"
  /\ UNCHANGED <<netVars, loopI, loopJ, connectionCount, buildFrame,
                 curves, viewVars>>
  /\ UNCHANGED uiVars

\* fault injection: the retry loop has no budget
LongArcRetryGuardNoBudget == DistBelow(PosOf(idx1), PosOf(idx2), longThreshold)

\* fault injection: the retry loop stops one attempt early
LongArcRetryGuardEarly ==
  DistBelow(PosOf(idx1), PosOf(idx2), longThreshold) /\ attempts < maxAttempts - 1

\* part_000:165, the while condition
LongArcRetryGuard ==
  DistBelow(PosOf(idx1), PosOf(idx2), longThreshold) /\ attempts < maxAttempts

\* part_000:165-168
LongArcRetry(b) ==
  /\ pc = "retry"
  /\ LongArcRetryGuard
  /\ idx2' = b
  /\ attempts' = attempts + 1
  /\ UNCHANGED <<pc, netVars, loopI, loopJ, connectionCount, idx1, buildFrame,
                 curves, viewVars>>
  /\ UNCHANGED uiVars

\* part_000:170-205; idx1, idx2 and attempts go out of scope with the pass
LongArcPush ==
  /\ pc = "retry"
  /\ ~LongArcRetryGuard
  /\ connections' = Append(connections,
        [node1 |-> idx1, node2 |-> idx2, isLongArc |-> TRUE])
  /\ curves' = Append(curves,
        [points |-> BuildCurve(PosOf(idx1), PosOf(idx2), arcSteps),
         angle |-> 0, altitude |-> longAltitude])
  /\ loopI' = loopI + 1
  /\ pc' = "long"
  /\ idx1' = 0
  /\ idx2' = 0
  /\ attempts' = 0
  /\ UNCHANGED <<nodePositions, linePoints, arcLines, loopJ, connectionCount,
                 buildFrame, viewVars>>
  /\ UNCHANGED uiVars

\* part_000:158, the loop ends; flow lines follow; part_000:285
LongDone ==
  /\ pc = "long"
  /\ ~(loopI < longArcCount)
  /\ pc' = "rings"
  /\ loopI' = 0
  /\ loopJ' = 0
  /\ UNCHANGED <<netVars, connectionCount, idx1, idx2, attempts, buildFrame,
                 curves, viewVars>>
  /\ UNCHANGED uiVars

\* part_000:305, dotCount of ring r
DotCount(r) == dotBase + r

\* part_000:313-323, one pass of the dot loop; speed: 0.3 + Math.random() * 0.2
CreateDot(speed) ==
  /\ pc = "rings"
  /\ loopI < ringCount
  /\ loopJ < DotCount(loopI)
  /\ satellites' = Append(satellites,
        [ringIndex |-> loopI,
         angle |-> (loopJ * 2 * PiMilli * 100) \div DotCount(loopI),
         speed |-> speed,
         inclination |-> (loopI - 1) * inclinationStep,
         position |-> <<0, 0, 0>>])
  /\ loopJ' = loopJ + 1
  /\ UNCHANGED <<pc, netVars, loopI, connectionCount, idx1, idx2, attempts,
                 variant, three, threeAtEval, caller, pageVars, initRuns, earth,
                 frameCount, time, rotY, rotX, nodeScale, emissiveIntensity,
                 rafPending, mouseSum, nodeView, renders, renderedSize,
                 mouseVars, texVars, curves, viewVars>>
  /\ UNCHANGED uiVars

\* part_000:313, the dot loop of a ring ends; part_000:285
RingNext ==
  /\ pc = "rings"
  /\ loopI < ringCount
  /\ ~(loopJ < DotCount(loopI))
  /\ loopI' = loopI + 1
  /\ loopJ' = 0
  /\ UNCHANGED <<pc, netVars, connectionCount, idx1, idx2, attempts,
                 buildFrame, curves, viewVars>>
  /\ UNCHANGED uiVars

\* part_000:285, the ring loop ends; stars and lights follow
RingsDone ==
  /\ pc = "rings"
  /\ ~(loopI < ringCount)
  /\ pc' = "animate"
  /\ loopI' = 0
  /\ UNCHANGED <<netVars, loopJ, connectionCount, idx1, idx2, attempts,
                 buildFrame, curves, viewVars>>
  /\ UNCHANGED uiVars

\* part_000:475-482 and part_002:314-321: animate() is called, the resize
\* listener is added and initEarth returns
FirstAnimate ==
  /\ pc = "animate"
  /\ AnimateBody
  /\ rafPending' = rafPending + 1
  /\ pc' = IF caller = "script" THEN "enhance" ELSE "idle"
  /\ UNCHANGED <<variant, three, threeAtEval, caller, pageVars, initRuns, earth,
                 nodePositions, linePoints, arcLines, loopVars, mouseVars,
                 texVars, viewVars>>
  /\ UNCHANGED uiVars

(***************************************************************************)
(* initEarth of part_002: nodes, line segments, arcs, pointer state.       *)
(***************************************************************************)
\* part_002:93-108
FibCreateNode ==
  /\ pc = "nodes"
  /\ variant = "fib"
  /\ Len(nodePositions) < nodeCount
  /\ nodePositions' = Append(nodePositions,
        [basePosition |-> FibSite(Len(nodePositions))])
  /\ nodeView' = Append(nodeView,
        [base |-> FibSite(Len(nodePositions)), angle |-> 0])
  /\ UNCHANGED <<pc, connections, linePoints, arcLines, loopVars, variant,
                 three, threeAtEval, caller, pageVars, initRuns, earth,
                 frameCount, time, rotY, rotX, nodeScale, emissiveIntensity,
                 rafPending, mouseSum, satellites, renders, renderedSize,
                 mouseVars, texVars, curves, viewVars>>
  /\ UNCHANGED uiVars

\* part_002:110-125
FibNodesDone ==
  /\ pc = "nodes"
  /\ variant = "fib"
  /\ Len(nodePositions) = nodeCount
  /\ pc' = "fibshort"
  /\ loopI' = 0
  /\ loopJ' = 0
  /\ connectionCount' = 0
  /\ UNCHANGED <<netVars, idx1, idx2, attempts, buildFrame, curves, viewVars>>
  /\ UNCHANGED uiVars

\* part_002:132, the sampled partner for draw r = Math.floor(Math.random() * 200)
SampleIndex(n, r) == (n + r - halfWindow + nodeCount) % nodeCount

\* fault injection: every sampled partner is connected
FibConnectsAlways(a, b) == TRUE

\* part_002:136-138
FibConnects(a, b) == DistBelow(PosOf(a), PosOf(b), fibThreshold)

\* part_002:133
FibSkips(n, idx) == n = idx

\* fault injection: the per-node limit is not applied
FibBreaksNever(count) == FALSE

\* part_002:143
FibBreaks(count) == count > breakAfter

\* part_002:131-144, one pass of the sampling loop body;
\* r: Math.floor(Math.random() * 200)
FibSample(r) ==
  /\ pc = "fibshort"
  /\ loopI < nodeCount
  /\ loopJ < samplesPerNode
  /\ LET idx == SampleIndex(loopI, r)
         hit == FibConnects(loopI, idx)
         count == IF hit THEN connectionCount + 1 ELSE connectionCount
     IN  IF FibSkips(loopI, idx)
           THEN /\ loopJ' = loopJ + 1
                /\ UNCHANGED <<linePoints, connectionCount, loopI>>
           ELSE /\ linePoints' = IF hit
                                   THEN linePoints \o <<PosOf(loopI), PosOf(idx)>>
                                   ELSE linePoints
                /\ IF FibBreaks(count)
                     THEN /\ loopI' = loopI + 1
                          /\ loopJ' = 0
                          /\ connectionCount' = 0
                     ELSE /\ loopJ' = loopJ + 1
                          /\ connectionCount' = count
                          /\ loopI' = loopI
  /\ UNCHANGED <<pc, nodePositions, connections, arcLines, idx1, idx2, attempts,
                 buildFrame, curves, viewVars>>
  /\ UNCHANGED uiVars

\* part_002:123-131, the sampling loop of a node ends without a break
FibNextRow ==
  /\ pc = "fibshort"
  /\ loopI < nodeCount
  /\ ~(loopJ < samplesPerNode)
  /\ loopI' = loopI + 1
  /\ loopJ' = 0
  /\ connectionCount' = 0
  /\ UNCHANGED <<pc, netVars, idx1, idx2, attempts, buildFrame,
                 curves, viewVars>>
  /\ UNCHANGED uiVars

\* part_002:123, the node loop ends; part_002:146-189
FibShortDone ==
  /\ pc = "fibshort"
  /\ ~(loopI < nodeCount)
  /\ pc' = "fibarc"
  /\ loopI' = 0
  /\ UNCHANGED <<netVars, loopJ, connectionCount, idx1, idx2, attempts, buildFrame,
                 curves, viewVars>>
  /\ UNCHANGED uiVars

\* part_002:192-194
FibArcAccepts(a, b) == a # b /\ DistAbove(PosOf(a), PosOf(b), fibLongThreshold)

\* part_002:189-205, one pass of the arc loop body;
\* a, b: Math.floor(Math.random() * nodeCount)
FibArc(a, b) ==
  /\ pc = "fibarc"
  /\ loopI < arcCount
  /\ arcLines' = IF FibArcAccepts(a, b)
                   THEN Append(arcLines, [p1 |-> PosOf(a), p2 |-> PosOf(b)])
                   ELSE arcLines
  /\ curves' = IF FibArcAccepts(a, b)
                 THEN Append(curves,
                        [points |-> ArcCurve(PosOf(a), PosOf(b), segments),
                         angle |-> 0, altitude |-> 1000])
                 ELSE curves
  /\ loopI' = loopI + 1
  /\ UNCHANGED <<pc, nodePositions, connections, linePoints, loopJ,
                 connectionCount, idx1, idx2, attempts, buildFrame, viewVars>>
  /\ UNCHANGED uiVars

\* part_002:189, the arc loop ends; part_002:207-251
FibArcsDone ==
  /\ pc = "fibarc"
  /\ ~(loopI < arcCount)
  /\ pc' = "animate"
  /\ windowHalfX' = winSize[1] \div 2
  /\ windowHalfY' = winSize[2] \div 2
  /\ mouseX' = 0
  /\ mouseY' = 0
  /\ UNCHANGED <<variant, three, threeAtEval, caller, pageVars, initRuns, earth,
                 netVars, loopVars, frameVars, texVars, curves, viewVars,
                 client>>
  /\ UNCHANGED uiVars

(***************************************************************************)
(* The typing effect: part_000:667-705, part_002:512-550.                  *)
(***************************************************************************)
\* part_000:668-673: the words, as sequences of characters
typingWords ==
  <<
     <<"A", "e", "r", "o", "s", "p", "a", "c", "e", " ", "E", "n", "g", 
       "i", "n", "e", "e", "r">>,
     <<"C", "F", "D", " ", "S", "p", "e", "c", "i", "a", "l", "i", "s", 
       "t">>,
     <<"R", "o", "b", "o", "t", "i", "c", "s", " ", "E", "n", "t", "h", 
       "u", "s", "i", "a", "s", "t">>,
     <<"R", "e", "s", "e", "a", "r", "c", "h", " ", "S", "c", "h", "o", 
       "l", "a", "r">>
  >>

\* String.prototype.substring(0, n): n below 0 counts as 0, n above the length
\* as the length
Substring(word, n) ==
  SubSeq(word, 1, IF n < 0 THEN 0 ELSE IF n > Len(word) THEN Len(word) ELSE n)

\* fault injection: the text is cut at charIndex before it is updated
DisplayedStale(word, deleting, c) == Substring(word, c)

\* part_000:681-686: the text written by a step
Displayed(word, deleting, c) ==
  IF deleting THEN Substring(word, c - 1) ELSE Substring(word, c + 1)

\* fault injection: deleting starts one character before the end of the word
TypedFullEarly(c, word) == c = Len(word) - 1

\* part_000:691: the word is typed out
TypedFull(c, word) == c = Len(word)

\* part_000:678-701: one run of typeEffect from a timeout; the run schedules
\* the next one (part_000:700); the first run comes from the timeout of
\* part_000:703-705
TypeEffect ==
  /\ pc = "idle"
  /\ typeTimers > 0
  /\ LET currentWord == typingWords[wordIndex + 1]
         c == IF isDeleting THEN charIndex - 1 ELSE charIndex + 1
     IN  /\ typingText' = Displayed(currentWord, isDeleting, charIndex)
         /\ charIndex' = c
         /\ IF ~isDeleting /\ TypedFull(c, currentWord)
              THEN /\ isDeleting' = TRUE
                   /\ wordIndex' = wordIndex
              ELSE IF isDeleting /\ c = 0
                THEN /\ isDeleting' = FALSE
                     /\ wordIndex' = (wordIndex + 1) % Len(typingWords)
                ELSE UNCHANGED <<isDeleting, wordIndex>>
  /\ typeTimers' = (typeTimers - 1) + 1
  /\ UNCHANGED <<globeVars, loadVars, menuVars, formVars, scrollVars, cursorVars>>

(***************************************************************************)
(* The mobile menu: part_000:639-662, 943-948; part_002:484-507, 788-793.  *)
(***************************************************************************)
\* fault injection: the click toggles the hamburger only
MenuToggledOne(h, n) == <<~h, n>>

\* part_000:660-661: classList.toggle('active') on both elements
MenuToggled(h, n) == <<~h, ~n>>

\* part_000:659-662: a click on the hamburger
HamburgerClick ==
  /\ pc = "idle"
  /\ enhancements
  /\ hamburgerActive' = MenuToggled(hamburgerActive, navLinksActive)[1]
  /\ navLinksActive' = MenuToggled(hamburgerActive, navLinksActive)[2]
  /\ UNCHANGED <<globeVars, loadVars, typeVars, formVars, scrollVars, cursorVars>>

\* part_000:640-656: a click on a navigation link, whose target section
\* exists or not; the scrolling itself is not modelled
NavLinkClick(targetSection) ==
  /\ pc = "idle"
  /\ enhancements
  /\ navLinksActive' = FALSE
  /\ hamburgerActive' = FALSE
  /\ UNCHANGED <<globeVars, loadVars, typeVars, formVars, scrollVars, cursorVars>>

\* the keys pressed
Keys == {"Escape", "Enter"}

\* part_000:943-948: keydown on the document
KeyDown(key) ==
  /\ pc = "idle"
  /\ enhancements
  /\ IF key = "Escape"
       THEN /\ navLinksActive' = FALSE
            /\ hamburgerActive' = FALSE
       ELSE UNCHANGED menuVars
  /\ UNCHANGED <<globeVars, loadVars, typeVars, formVars, scrollVars, cursorVars>>

(***************************************************************************)
(* The contact form: part_000:869-884, part_002:714-729.                   *)
(***************************************************************************)
\* part_000:877: the background of the button after a submit
sentBackground == "linear-gradient(135deg, #10b981 0%, #059669 100%)"

\* submits of one run
MaxSubmits == 2

\* the visitor types into the form
FillForm ==
  /\ pc = "idle"
  /\ enhancements
  /\ ~formFilled
  /\ formFilled' = TRUE
  /\ UNCHANGED <<buttonText, buttonBackground, formTimers, submitCount>>
  /\ UNCHANGED <<globeVars, loadVars, typeVars, menuVars, scrollVars, cursorVars>>

\* part_000:871-884: the submit handler; originalText is the label at the
\* time of this submit, kept by the timeout it schedules
Submit ==
  /\ pc = "idle"
  /\ enhancements
  /\ submitCount < MaxSubmits
  /\ LET originalText == buttonText
     IN  formTimers' = Append(formTimers, originalText)
  /\ buttonText' = sentLabel
  /\ buttonBackground' = sentBackground
  /\ submitCount' = submitCount + 1
  /\ UNCHANGED formFilled
  /\ UNCHANGED <<globeVars, loadVars, typeVars, menuVars, scrollVars, cursorVars>>

\* part_000:879-883: the timeout of the oldest submit, 3000 ms after it
FormTimeout ==
  /\ pc = "idle"
  /\ formTimers # <<>>
  /\ buttonText' = Head(formTimers)
  /\ buttonBackground' = ""
  /\ formFilled' = FALSE
  /\ formTimers' = Tail(formTimers)
  /\ UNCHANGED submitCount
  /\ UNCHANGED <<globeVars, loadVars, typeVars, menuVars, scrollVars, cursorVars>>

(***************************************************************************)
(* Scrolling: part_000:607-637, 908-920; part_002:452-482, 753-765.        *)
(***************************************************************************)
\* scroll events between two animation frames
MaxScrolls == 2

\* part_000:607-613, 637, 915-920: a scroll event runs the three listeners in
\* the order they were added: the navbar's (not modelled), setActiveNavLink
\* itself, and the throttle
Scroll ==
  /\ pc = "idle"
  /\ enhancements
  /\ scrollsInFrame < MaxScrolls
  /\ scrollsInFrame' = scrollsInFrame + 1
  /\ navRunsInFrame' = navRunsInFrame + 1
  /\ IF ~ticking
       THEN /\ scrollRaf' = scrollRaf + 1
            /\ ticking' = TRUE
       ELSE UNCHANGED <<scrollRaf, ticking>>
  /\ UNCHANGED <<globeVars, loadVars, typeVars, menuVars, formVars, cursorVars>>

\* part_000:910-913: an animation frame; it runs updateOnScroll when that was
\* requested, and the counts of the frame start again
ScrollFrame ==
  /\ pc = "idle"
  /\ enhancements
  /\ IF scrollRaf > 0
       THEN /\ navRunsInFrame' = 1
            /\ ticking' = FALSE
            /\ scrollRaf' = scrollRaf - 1
       ELSE /\ navRunsInFrame' = 0
            /\ UNCHANGED <<ticking, scrollRaf>>
  /\ scrollsInFrame' = 0
  /\ UNCHANGED <<globeVars, loadVars, typeVars, menuVars, formVars, cursorVars>>

(***************************************************************************)
(* The cursor trail: part_000:495-577, part_002:339-422.  Opacities are    *)
(* in thousandths.                                                         *)
(***************************************************************************)
\* part_000:525-529: the pointer leaves the document; an interactive element
\* under it is left first (part_000:571-576)
DocumentMouseLeave ==
  /\ pc = "idle"
  /\ enhancements
  /\ ~pointerOutside
  /\ pointerOutside' = TRUE
  /\ hovering' = FALSE
  /\ trailOpacity' = [i \in 1..trailCount |-> 0]
  /\ UNCHANGED cursorRaf
  /\ UNCHANGED <<globeVars, loadVars, typeVars, menuVars, formVars, scrollVars>>

\* the pointer comes back over the page, away from interactive elements;
\* part_000:520-523 keeps its position only
PointerReturns ==
  /\ pc = "idle"
  /\ enhancements
  /\ pointerOutside
  /\ pointerOutside' = FALSE
  /\ UNCHANGED <<trailOpacity, hovering, cursorRaf>>
  /\ UNCHANGED <<globeVars, loadVars, typeVars, menuVars, formVars, scrollVars>>

\* part_000:565-570: mouseenter on an interactive element
ElementMouseEnter ==
  /\ pc = "idle"
  /\ enhancements
  /\ ~pointerOutside
  /\ ~hovering
  /\ hovering' = TRUE
  /\ trailOpacity' = [i \in 1..trailCount |-> hoverOpacity]
  /\ UNCHANGED <<pointerOutside, cursorRaf>>
  /\ UNCHANGED <<globeVars, loadVars, typeVars, menuVars, formVars, scrollVars>>

\* part_000:571-576: mouseleave on an interactive element
ElementMouseLeave ==
  /\ pc = "idle"
  /\ enhancements
  /\ hovering
  /\ hovering' = FALSE
  /\ trailOpacity' = FrameOpacities
  /\ UNCHANGED <<pointerOutside, cursorRaf>>
  /\ UNCHANGED <<globeVars, loadVars, typeVars, menuVars, formVars, scrollVars>>

\* part_000:531-557: animateCursor as an animation-frame callback; it writes
\* the opacity of every dot and requests the next frame; the positions of
\* the dots are not modelled
AnimateCursor ==
  /\ pc = "idle"
  /\ cursorRaf > 0
  /\ trailOpacity' = FrameOpacities
  /\ cursorRaf' = (cursorRaf - 1) + 1
  /\ UNCHANGED <<pointerOutside, hovering>>
  /\ UNCHANGED <<globeVars, loadVars, typeVars, menuVars, formVars, scrollVars>>

(***************************************************************************)
(* Callbacks dispatched by the event loop.                                 *)
(***************************************************************************)
\* fault injection: the callback requests two frames
AfterFrameTwice(pending) == (pending - 1) + 2

\* fault injection: the callback does not request another frame
AfterFrameNoRequest(pending) == pending - 1

\* part_000:355, part_002:255: the callback being run is no longer pending
\* and its first statement, requestAnimationFrame(animate), requests one more
AfterFrame(pending) == (pending - 1) + 1

\* the requestAnimationFrame callback animate
Animate ==
  /\ pc = "idle"
  /\ rafPending > 0
  /\ frameCount < MaxFrames
  /\ AnimateBody
  /\ rafPending' = AfterFrame(rafPending)
  /\ UNCHANGED <<variant, three, threeAtEval, pc, caller, pageVars, initRuns,
                 earth, nodePositions, linePoints, arcLines, loopVars,
                 mouseVars, texVars, viewVars>>
  /\ UNCHANGED uiVars

\* part_002:216-219
MouseMove ==
  /\ pc = "idle"
  /\ variant = "fib"
  /\ initRuns > 0
  /\ \E cx \in ClientXs, cy \in ClientYs :
       /\ mouseX' = cx - windowHalfX
       /\ mouseY' = cy - windowHalfY
       /\ client' = <<cx, cy>>
  /\ UNCHANGED <<variant, three, threeAtEval, pc, caller, pageVars, initRuns,
                 earth, netVars, loopVars, frameVars, windowHalfX, windowHalfY,
                 texVars, curves, viewVars>>
  /\ UNCHANGED uiVars

\* part_000:478-482, part_002:316-321: the window takes the size `size` and
\* the resize event is dispatched; the listener exists once initEarth has run
WindowResize(size) ==
  /\ pc = "idle"
  /\ size # winSize
  /\ winSize' = size
  /\ IF initRuns > 0
       THEN /\ cameraAspect' = Aspect(size)
            /\ rendererSize' = size
       ELSE UNCHANGED <<cameraAspect, rendererSize>>
  /\ UNCHANGED <<variant, three, threeAtEval, pc, caller, pageVars, initRuns,
                 earth, netVars, loopVars, frameVars, mouseVars, texVars, curves>>
  /\ UNCHANGED uiVars

\* the script that defines THREE finishes loading after this script ran
ThreeArrives ==
  /\ pc = "idle"
  /\ ~three
  /\ ~loadFired
  /\ three' = TRUE
  /\ UNCHANGED <<variant, threeAtEval, pc, caller, pageVars, initRuns, earth,
                 netVars, loopVars, frameVars, mouseVars, texVars,
                 curves, viewVars>>
  /\ UNCHANGED uiVars

\* part_000:929, part_002:774: the widest viewport taken as mobile
mobileWidth == 768

\* the identifiers cursorRing and cursorTrail resolve: the scripts declare
\* cursorDotsContainer and cursorDot only (part_000:494-495, part_002:339-340)
CursorRingDeclared == FALSE

\* part_000:925-938, part_002:770-783: the load listener of the page
LoadHandler ==
  /\ loadNavRan' = TRUE
  /\ IF winSize[1] <= mobileWidth
       THEN /\ cursorDotHidden' = TRUE
            /\ IF CursorRingDeclared
                 THEN /\ bodyCursorAuto' = TRUE
                      /\ bodyLoaded' = TRUE
                      /\ loadThrew' = FALSE
                 ELSE /\ loadThrew' = TRUE
                      /\ UNCHANGED <<bodyCursorAuto, bodyLoaded>>
       ELSE /\ bodyLoaded' = TRUE
            /\ loadThrew' = FALSE
            /\ UNCHANGED <<cursorDotHidden, bodyCursorAuto>>

\* part_002:329-331 and the load listener of the page: the window load event
WindowLoad ==
  /\ pc = "idle"
  /\ ~loadFired
  /\ loadFired' = TRUE
  /\ IF deferredInit /\ three
       THEN EnterInitEarth("load")
       ELSE UNCHANGED <<pc, caller, initRuns, earth, earthColor, earthEmissive,
                        earthMap, cameraAspect, rendererSize>>
  /\ UNCHANGED <<variant, three, threeAtEval, warnings, enhancements,
                 deferredInit, netVars, loopVars, frameVars, mouseVars,
                 texture, uncaught, winSize, curves>>
  /\ LoadHandler
  /\ UNCHANGED <<typeVars, menuVars, formVars, scrollVars, cursorVars>>

\* part_000:979-1001, part_002:824-846: the timer runs loadEarthTexture
TextureTimer ==
  /\ pc = "idle"
  /\ texture = "timer"
  /\ texture' = "loading"
  /\ UNCHANGED <<variant, three, threeAtEval, pc, caller, pageVars, initRuns,
                 earth, netVars, loopVars, frameVars, mouseVars, uncaught,
                 earthColor, earthEmissive, earthMap, curves, viewVars>>
  /\ UNCHANGED uiVars

\* the identifier earth resolves: part_000:9 declares it, part_002 does not
EarthDeclared == variant = "random"

\* part_000:985-990, part_002:830-835: the load callback
TextureLoaded ==
  /\ pc = "idle"
  /\ texture = "loading"
  /\ texture' = "loaded"
  /\ IF EarthDeclared
       THEN /\ earthMap' = (earth \/ earthMap)
            /\ UNCHANGED uncaught
       ELSE /\ uncaught' = uncaught + 1
            /\ UNCHANGED earthMap
  /\ UNCHANGED <<variant, three, threeAtEval, pc, caller, pageVars, initRuns,
                 earth, netVars, loopVars, frameVars, mouseVars, earthColor,
                 earthEmissive, curves, viewVars>>
  /\ UNCHANGED uiVars

\* part_000:992-999, part_002:837-844: the error callback
TextureError ==
  /\ pc = "idle"
  /\ texture = "loading"
  /\ texture' = "failed"
  /\ IF EarthDeclared
       THEN /\ earthColor' = IF earth THEN fallbackColor ELSE earthColor
            /\ earthEmissive' = IF earth THEN fallbackEmissive ELSE earthEmissive
            /\ UNCHANGED uncaught
       ELSE /\ uncaught' = uncaught + 1
            /\ UNCHANGED <<earthColor, earthEmissive>>
  /\ UNCHANGED <<variant, three, threeAtEval, pc, caller, pageVars, initRuns,
                 earth, netVars, loopVars, frameVars, mouseVars, earthMap,
                 curves, viewVars>>
  /\ UNCHANGED uiVars

(***************************************************************************)
(* Values of the random source.                                            *)
(***************************************************************************)
NodeIndices == 0..(nodeCount - 1)

\* every value of Math.floor(Math.random() * 200), at model scale
SampleDraws == 0..(2 * halfWindow - 1)

\* the subset of the draws explored together with pointer events
ThinNodeDraws ==
  IF Len(nodePositions) < Len(NodeDrawSeq)
    THEN {NodeDrawSeq[Len(nodePositions) + 1]}
    ELSE {}
ThinPairs == {<<0, 0>>, <<0, 1>>, <<0, 2>>}
ThinRetries == {1}
ThinSamples == {halfWindow - 1, halfWindow}

\* values of 0.3 + Math.random() * 0.2 explored: two for the first dot
SpeedDraws == IF Len(satellites) = 0 THEN {300, 450} ELSE {400}
MidSpeedDraws == {400}

\* node draws of BuildSpec: any draw for the first node, then the draws that
\* follow it in NodeDrawSeq, cyclically
CyclicNodeDraws ==
  IF nodePositions = <<>>
    THEN NodeDraws
    ELSE IF variant # "random" THEN {}
    ELSE LET last == nodePositions[Len(nodePositions)].basePosition
             k == CHOOSE n \in 1..Len(NodeDrawSeq) : NodeDrawSeq[n].site = last
         IN  {NodeDrawSeq[(k % Len(NodeDrawSeq)) + 1]}

\* the steps of the script and of initEarth that draw nothing
BuildSteps ==
  \/ ScriptGuard
  \/ InstallEnhancements
  \/ NodesDone
  \/ ShortNextRow
  \/ ShortDone
  \/ LongArcPush
  \/ LongDone
  \/ RingNext
  \/ RingsDone
  \/ FibCreateNode
  \/ FibNodesDone
  \/ FibNextRow
  \/ FibShortDone
  \/ FibArcsDone
  \/ FirstAnimate

\* the callbacks other than the pointer's
Callbacks ==
  \/ Animate
  \/ ThreeArrives
  \/ WindowLoad
  \/ TextureTimer
  \/ TextureLoaded
  \/ TextureError

(***************************************************************************)
(* Spec: the page with pointer events, for a subset of the random draws.   *)
(***************************************************************************)
Next ==
  \/ BuildSteps
  \/ Callbacks
  \/ MouseMove
  \/ \E size \in WinSizes : WindowResize(size)
  \/ \E speed \in SpeedDraws : CreateDot(speed)
  \/ \E d \in ThinNodeDraws : CreateNode(d)
  \/ \E draw \in BOOLEAN : ShortPair(draw)
  \/ \E pr \in ThinPairs : LongArcPick(pr[1], pr[2])
  \/ \E b \in ThinRetries : LongArcRetry(b)
  \/ \E r \in ThinSamples : FibSample(r)
  \/ \E pr \in ThinPairs : FibArc(pr[1], pr[2])

Spec == Init /\ [][Next]_vars

(***************************************************************************)
(* LiveSpec: the page with pointer, resize and texture callbacks for one   *)
(* value of every random draw, where the script, once started, runs to its *)
(* end and the browser runs a frame callback that stays pending.           *)
(***************************************************************************)
LivePairs == {<<0, 1>>}
LiveSamples == {halfWindow}

LiveNext ==
  \/ BuildSteps
  \/ Callbacks
  \/ MouseMove
  \/ \E size \in WinSizes : WindowResize(size)
  \/ \E speed \in MidSpeedDraws : CreateDot(speed)
  \/ \E d \in ThinNodeDraws : CreateNode(d)
  \/ \E draw \in BOOLEAN : ShortPair(draw)
  \/ \E pr \in LivePairs : LongArcPick(pr[1], pr[2])
  \/ \E b \in ThinRetries : LongArcRetry(b)
  \/ \E r \in LiveSamples : FibSample(r)
  \/ \E pr \in LivePairs : FibArc(pr[1], pr[2])

LiveSpec ==
  Init /\ [][LiveNext]_vars /\ WF_vars(InstallEnhancements) /\ WF_vars(Animate)

(***************************************************************************)
(* BuildSpec: the page with the pointer and the window at rest, for every  *)
(* random draw of the connection and arc loops.                            *)
(***************************************************************************)
BuildNext ==
  \/ BuildSteps
  \/ Callbacks
  \/ \E speed \in MidSpeedDraws : CreateDot(speed)
  \/ \E d \in CyclicNodeDraws : CreateNode(d)
  \/ \E draw \in BOOLEAN : ShortPair(draw)
  \/ \E a \in NodeIndices, b \in NodeIndices : LongArcPick(a, b)
  \/ \E b \in NodeIndices : LongArcRetry(b)
  \/ \E r \in SampleDraws : FibSample(r)
  \/ \E a \in NodeIndices, b \in NodeIndices : FibArc(a, b)

BuildSpec == Init /\ [][BuildNext]_vars

(***************************************************************************)
(* The script with one value of every random draw, as run by the page      *)
(* specifications below.                                                   *)
(***************************************************************************)
ScriptSteps ==
  \/ BuildSteps
  \/ \E speed \in MidSpeedDraws : CreateDot(speed)
  \/ \E d \in ThinNodeDraws : CreateNode(d)
  \/ \E draw \in BOOLEAN : ShortPair(draw)
  \/ \E pr \in LivePairs : LongArcPick(pr[1], pr[2])
  \/ \E b \in ThinRetries : LongArcRetry(b)
  \/ \E r \in LiveSamples : FibSample(r)
  \/ \E pr \in LivePairs : FibArc(pr[1], pr[2])

(***************************************************************************)
(* TypeSpec: the page and its typing effect, where the script runs to its  *)
(* end and a timeout that is due is eventually run.                        *)
(***************************************************************************)
TypeNext ==
  \/ ScriptSteps
  \/ ThreeArrives
  \/ WindowLoad
  \/ TypeEffect

TypeSpec ==
  Init /\ [][TypeNext]_vars /\ WF_vars(ScriptSteps) /\ WF_vars(TypeEffect)

(***************************************************************************)
(* PageSpec: the page with its menu and its contact form.                  *)
(***************************************************************************)
PageNext ==
  \/ ScriptSteps
  \/ ThreeArrives
  \/ WindowLoad
  \/ HamburgerClick
  \/ \E targetSection \in BOOLEAN : NavLinkClick(targetSection)
  \/ \E key \in Keys : KeyDown(key)
  \/ FillForm
  \/ Submit
  \/ FormTimeout

PageSpec == Init /\ [][PageNext]_vars

(***************************************************************************)
(* FrameSpec: the page with its scroll listeners, its cursor trail and the *)
(* animation frames they use.                                              *)
(***************************************************************************)
FrameNext ==
  \/ ScriptSteps
  \/ ThreeArrives
  \/ WindowLoad
  \/ Scroll
  \/ ScrollFrame
  \/ DocumentMouseLeave
  \/ PointerReturns
  \/ ElementMouseEnter
  \/ ElementMouseLeave
  \/ AnimateCursor

FrameSpec == Init /\ [][FrameNext]_vars

(***************************************************************************)
(* Properties.                                                             *)
(***************************************************************************)
\* initEarth has returned
BuildDone == initRuns > 0 /\ pc \in {"enhance", "idle"}

\* indices (1-based) of the short connections and of the long arcs of part_000
ShortIdx == {k \in 1..Len(connections) : ~connections[k].isLongArc}
LongIdx == {k \in 1..Len(connections) : connections[k].isLongArc}

\* number of line segments of part_002
SegmentCount == Len(linePoints) \div 2

\* C1: when the texture load reports failure, the error callback sets the
\* globe material to the fallback colour and emissive and does not throw, in
\* both script variants and whatever frames ran before.
C1_FallbackApplied ==
  texture = "failed" =>
    /\ uncaught = 0
    /\ earthColor = fallbackColor
    /\ earthEmissive = fallbackEmissive

\* C2 as stated: with THREE undefined at script evaluation initEarth never
\* runs, no frame loop and no texture load is started, one warning is logged
\* and the other page enhancements are installed.
C2_SkippedEntirely ==
  ~threeAtEval =>
    /\ initRuns = 0
    /\ frameCount = 0
    /\ rafPending = 0
    /\ texture = "none"
    /\ pc = "idle" => (warnings = 1 /\ enhancements)

\* C2 amended: with THREE undefined at script evaluation no texture load is
\* ever started and the other enhancements are installed; part_000 never runs
\* initEarth and logs one warning; part_002 logs nothing and runs initEarth at
\* most once, from the load handler, when THREE is defined by then.
C2_SkippedOrDeferred ==
  ~threeAtEval =>
    /\ texture = "none"
    /\ pc = "idle" => enhancements
    /\ variant = "random" =>
         /\ initRuns = 0 /\ frameCount = 0 /\ rafPending = 0
         /\ pc = "idle" => warnings = 1
    /\ variant = "fib" =>
         /\ warnings = 0
         /\ initRuns <= 1
         /\ initRuns = 1 => (loadFired /\ three /\ caller = "load")
         /\ initRuns = 0 => (frameCount = 0 /\ rafPending = 0)

C2_Witness ==
  /\ ~threeAtEval
  /\ variant = "fib"
  /\ pc = "idle"
  /\ enhancements
  /\ initRuns = 1
  /\ frameCount > 1

BuildMeasure ==
  LET dotMax == dotBase + ringCount
      ringsStart == 2 + ringCount * (dotMax + 2) + dotMax + 1
      longStart == ringsStart + 1 + longArcCount * (maxAttempts + 3)
      shortStart == longStart + 1 + nodeCount * (nodeCount + 3) + nodeCount + 2
      fibArcStart == 2 + arcCount
      fibShortStart == fibArcStart + 1 + nodeCount * (samplesPerNode + 2)
                         + samplesPerNode + 1
  IN  CASE pc = "animate" -> 1
        [] pc = "rings" -> 2 + (ringCount - loopI) * (dotMax + 2)
                             + (dotMax + 1 - loopJ)
        [] pc = "long" -> ringsStart + 1
                            + (longArcCount - loopI) * (maxAttempts + 3)
        [] pc = "retry" -> ringsStart + 1
                             + (longArcCount - loopI - 1) * (maxAttempts + 3)
                             + 2 + (maxAttempts - attempts)
        [] pc = "short" -> longStart + 1 + (nodeCount - loopI) * (nodeCount + 3)
                             + (nodeCount + 2 - loopJ)
        [] pc = "fibarc" -> 2 + (arcCount - loopI)
        [] pc = "fibshort" -> fibArcStart + 1
                                + (nodeCount - loopI) * (samplesPerNode + 2)
                                + (samplesPerNode + 1 - loopJ)
        [] pc = "nodes" -> (IF variant = "random" THEN shortStart ELSE fibShortStart)
                             + 1 + (nodeCount - Len(nodePositions))
        [] OTHER -> 0

InBuild == pc \in {"nodes", "short", "long", "retry", "rings", "fibshort", "fibarc", "animate"}

\* C4 as stated: the build produces exactly longArcCount long arcs in
\* part_000 and exactly arcCount arcs in part_002.
C4_ExactArcCounts ==
  BuildDone =>
    /\ variant = "random" => Cardinality(LongIdx) = longArcCount
    /\ variant = "fib" => Len(arcLines) = arcCount

\* C4 amended: every step of the build lowers its rank, which stays >= 0, so
\* the build terminates; the second endpoint is resampled at most maxAttempts
\* times; part_000 ends with exactly longArcCount long arcs and part_002 with
\* at most arcCount arcs.
C4_TerminatesWithBoundedArcs ==
  [][/\ InBuild => (BuildMeasure' < BuildMeasure /\ BuildMeasure' >= 0)
     /\ attempts' <= maxAttempts
     /\ BuildDone' =>
          /\ variant = "random" => Cardinality(LongIdx') = longArcCount
          /\ variant = "fib" => Len(arcLines') <= arcCount]_vars

C4_Witness ==
  /\ BuildDone
  /\ variant = "fib"
  /\ Len(arcLines) < arcCount

\* C5: every short connection joins two distinct nodes whose chord distance
\* is below the threshold of its variant.
C5_ShortConnectionsNear ==
  /\ \A k \in ShortIdx :
       /\ connections[k].node1 # connections[k].node2
       /\ DistBelow(PosOf(connections[k].node1), PosOf(connections[k].node2),
                    shortThreshold)
  /\ \A k \in 1..SegmentCount :
       /\ linePoints[2 * k - 1] # linePoints[2 * k]
       /\ DistBelow(linePoints[2 * k - 1], linePoints[2 * k], fibThreshold)

C5_Witness ==
  /\ BuildDone
  /\ variant = "fib"
  /\ SegmentCount > 0

\* unordered node pairs closer than limit
NearPairs(limit) ==
  {pr \in NodeIndices \X NodeIndices :
     /\ pr[1] < pr[2]
     /\ pr[2] < Len(nodePositions)
     /\ DistBelow(PosOf(pr[1]), PosOf(pr[2]), limit)}

\* index of the node at position p
IndexOfPos(p) == CHOOSE k \in 0..(Len(nodePositions) - 1) : PosOf(k) = p

\* unordered node pairs joined by a short connection
ConnectedPairs ==
  IF variant = "random"
    THEN {<<connections[k].node1, connections[k].node2>> : k \in ShortIdx}
    ELSE {LET a == IndexOfPos(linePoints[2 * k - 1])
              b == IndexOfPos(linePoints[2 * k])
          IN  IF a < b THEN <<a, b>> ELSE <<b, a>> : k \in 1..SegmentCount}

ThresholdOf(v) == IF v = "random" THEN shortThreshold ELSE fibThreshold

\* C6 as stated: after the build the short connections are exactly the
\* unordered pairs of nodes closer than the threshold, each pair once.
C6_ExactlyNearPairs ==
  BuildDone =>
    /\ ConnectedPairs = NearPairs(ThresholdOf(variant))
    /\ variant = "random" => Cardinality(ShortIdx) = Cardinality(ConnectedPairs)
    /\ variant = "fib" => SegmentCount = Cardinality(ConnectedPairs)

\* C6 amended: the short connections join only pairs closer than the
\* threshold; which of those pairs are joined depends on the random draws
\* and on the cap; part_000 holds each joined pair once.
C6_SubsetOfNearPairs ==
  BuildDone =>
    /\ ConnectedPairs \subseteq NearPairs(ThresholdOf(variant))
    /\ variant = "random" =>
         /\ Cardinality(ShortIdx) = Cardinality(ConnectedPairs)
         /\ Cardinality(ShortIdx) <= maxConnections

\* a build that left a near pair unconnected and connected another
C6_Witness ==
  /\ BuildDone
  /\ variant = "random"
  /\ ConnectedPairs # {}
  /\ ConnectedPairs # NearPairs(shortThreshold)

\* C7: in part_000 the count of short connections never exceeds
\* maxConnections, once it is reached no further pair is examined, and the
\* connection list never holds more than maxConnections + longArcCount.
C7_CapHolds ==
  [][variant = "random" =>
       /\ connectionCount' <= maxConnections
       /\ Cardinality(ShortIdx') <= maxConnections
       /\ Len(connections') <= maxConnections + longArcCount
       /\ (pc = "short" /\ connectionCount = maxConnections) =>
            /\ connections' = connections
            /\ connectionCount' = connectionCount
            /\ ~(pc' = "short" /\ loopI' = loopI /\ loopJ' = loopJ + 1)]_vars

\* the cap was reached inside a row, leaving near pairs unexamined, and
\* frames have run since
C7_Witness ==
  /\ variant = "random"
  /\ pc = "idle"
  /\ frameCount > 1
  /\ connectionCount = maxConnections
  /\ Len(connections) = maxConnections + longArcCount
  /\ loopJ < nodeCount
  /\ ConnectedPairs # NearPairs(shortThreshold)

\* number of segments with node n as first endpoint, and as either endpoint
Initiated(n) ==
  Cardinality({k \in 1..SegmentCount : linePoints[2 * k - 1] = PosOf(n)})

Degree(n) ==
  Cardinality({k \in 1..SegmentCount :
                 linePoints[2 * k - 1] = PosOf(n) \/ linePoints[2 * k] = PosOf(n)})

C9_LinearInFrames ==
  /\ time = frameCount * (IF variant = "random" THEN timeStepRandom ELSE timeStepFib)
  /\ rotY = frameCount * (IF variant = "random" THEN rotationStepRandom
                                                 ELSE rotationStepFib)

\* C9 amended: the time is n times the time step in both variants; the y
\* rotation is n times the increment in part_000, and in part_002 n times
\* the increment plus pointerGain times the sum of the pointer offsets read
\* by the n frames.
C9_LinearPlusPointer ==
  /\ time = frameCount * (IF variant = "random" THEN timeStepRandom ELSE timeStepFib)
  /\ variant = "random" => rotY = frameCount * rotationStepRandom
  /\ variant = "fib" => rotY = frameCount * rotationStepFib + pointerGain * mouseSum

C9_Witness ==
  /\ variant = "fib"
  /\ frameCount > 2
  /\ mouseSum # 0
  /\ rotY # frameCount * rotationStepFib

\* C10: on a frame with an odd count (after the first) every node's pulse
\* scale and the node material's emissive intensity keep the values of the
\* previous frame.
C10_StaleOnOddFrames ==
  [][(/\ variant = "random"
      /\ frameCount >= 1
      /\ frameCount' = frameCount + 1
      /\ frameCount' % 2 = 1)
       => /\ nodeScale' = nodeScale
          /\ emissiveIntensity' = emissiveIntensity]_vars

\* the pair of connection k is degenerate for the frame updater: the angle
\* is NaN or its sine is not above 0.001
Degenerate(k) ==
  \/ AcosIsNaN(PosOf(connections[k].node1), PosOf(connections[k].node2))
  \/ SinAngle(PosOf(connections[k].node1), PosOf(connections[k].node2)) <= 1

\* the curve c runs from the direction of p to the direction of q
RunsBetween(c, p, q) ==
  /\ ~c.points[1].nan
  /\ ~c.points[Len(c.points)].nan
  /\ c.points[1].dir = Primitive(p)
  /\ c.points[Len(c.points)].dir = Primitive(q)

\* C11: on a frame whose count is divisible by 3 every connection's curve is
\* derived from the base positions of its two nodes at the current rotation:
\* it has frameSteps + 1 points, the first in the direction of the first
\* rotated endpoint and the last in the direction of the second, and
\* recomputing in the state reached gives the curves it already holds.
C11_EveryCurveRunsBetweenEndpoints ==
  [][(variant = "random" /\ frameCount' = frameCount + 1 /\ frameCount' % 3 = 0)
       => /\ \A k \in 1..Len(connections') :
               /\ curves'[k].angle = rotY'
               /\ Len(curves'[k].points) = frameSteps + 1
               /\ RunsBetween(curves'[k], PosOf(connections'[k].node1),
                              PosOf(connections'[k].node2))
          /\ curves' = [k \in 1..Len(connections') |->
                          RecomputedCurve(connections'[k], rotY')]]_vars

\* C11, as the frame updater behaves: on a frame whose count is divisible
\* by 3 every connection's curve is computed at the current rotation from
\* the base positions of its two nodes; it is empty when the pair is
\* degenerate (the angle is NaN for nodes closer than about 0.14, for a
\* node paired with itself and for nearly opposite nodes) and otherwise runs from
\* the direction of the first rotated endpoint to that of the second, two
\* connections with the same endpoints get the same curve, and recomputing
\* in the state reached gives the curves it already holds.
C11_CurvesFollowEndpoints ==
  [][(variant = "random" /\ frameCount' = frameCount + 1 /\ frameCount' % 3 = 0)
       => /\ Len(curves') = Len(connections')
          /\ \A k \in 1..Len(connections') :
               /\ curves'[k].angle = rotY'
               /\ (curves'[k].points = <<>>) <=> Degenerate(k)
               /\ curves'[k].points # <<>> =>
                    /\ Len(curves'[k].points) = frameSteps + 1
                    /\ RunsBetween(curves'[k], PosOf(connections'[k].node1),
                                   PosOf(connections'[k].node2))
               /\ \A m \in 1..Len(connections') :
                    (/\ connections'[m].node1 = connections'[k].node1
                     /\ connections'[m].node2 = connections'[k].node2)
                      => curves'[m].points = curves'[k].points
          /\ curves' = [k \in 1..Len(connections') |->
                          RecomputedCurve(connections'[k], rotY')]]_vars

\* a recomputed curve between two distinct directions, at a rotation that is
\* not the one of the build
C11_Witness ==
  /\ variant = "random"
  /\ frameCount > 0
  /\ frameCount % 3 = 0
  /\ \E k \in 1..Len(connections) :
       /\ curves[k].points # <<>>
       /\ curves[k].angle = rotY
       /\ rotY # 0
       /\ curves[k].points[1].dir # curves[k].points[Len(curves[k].points)].dir

\* the two positions curve k was interpolated between
CurveEnds(k) ==
  IF variant = "random"
    THEN <<PosOf(connections[k].node1), PosOf(connections[k].node2)>>
    ELSE <<arcLines[k].p1, arcLines[k].p2>>

\* every point of the curve is a unit vector before the altitude factor
UnitPoints(c) ==
  \A i \in 1..Len(c.points) : ~c.points[i].nan /\ c.points[i].dir # <<0, 0, 0>>

\* C12: every interpolated curve, in the sin-ratio form (build and frames)
\* and in createArc, starts in the direction of p1 (t = 0), ends in the
\* direction of p2 (t = 1) and consists of unit vectors before the altitude
\* factor, for the node positions of radius 1.005 the build passes in.
C12_InterpolationUnitBetweenEnds ==
  \A k \in 1..Len(curves) :
    curves[k].points # <<>> =>
      /\ RunsBetween(curves[k], CurveEnds(k)[1], CurveEnds(k)[2])
      /\ UnitPoints(curves[k])

\* C12, where the angle is computable: the same holds for every pair whose
\* dot product lies in [-1, 1], and for every createArc pair
C12_InterpolationWhereDefined ==
  \A k \in 1..Len(curves) :
    (/\ curves[k].points # <<>>
     /\ variant = "random" => ~AcosIsNaN(CurveEnds(k)[1], CurveEnds(k)[2])) =>
      /\ RunsBetween(curves[k], CurveEnds(k)[1], CurveEnds(k)[2])
      /\ UnitPoints(curves[k])

\* the number of points of a complete curve of connection k: the build's
\* steps + 1 or arcSteps + 1, or the frame updater's frameSteps + 1
FullLengths(k) ==
  {(IF connections[k].isLongArc THEN arcSteps ELSE steps) + 1, frameSteps + 1}

\* C13: every connection and long-arc polyline, at build time and after
\* every recomputation, holds either all its steps + 1 points, each finite,
\* or no point; a degenerate pair, a dot product outside [-1, 1] included,
\* never leaves a NaN point.
C13_AllFinitePointsOrNone ==
  variant = "random" =>
    \A k \in 1..Len(curves) :
      \/ curves[k].points = <<>>
      \/ /\ Len(curves[k].points) \in FullLengths(k)
         /\ \A i \in 1..Len(curves[k].points) : ~curves[k].points[i].nan

\* C13, for the frame updater alone: once a recomputation has run, every
\* polyline holds frameSteps + 1 finite points or none
C13_FiniteAfterRecomputation ==
  (variant = "random" /\ frameCount >= 3) =>
    \A k \in 1..Len(curves) :
      \/ curves[k].points = <<>>
      \/ /\ Len(curves[k].points) = frameSteps + 1
         /\ \A i \in 1..Len(curves[k].points) : ~curves[k].points[i].nan

\* the squared length of a position, in units of 1e-6
NormSq(p) == Dot(p, p)

\* C14: every node is at radius 1.005 at creation and after every frame:
\* the position rendered for node k is its base position rotated about the
\* y axis by the rotation accumulated so far, and a base position, once
\* created, is never modified.
C14_NodesStayOnSphere ==
  /\ [](variant = "random" =>
          /\ Len(nodeView) = Len(nodePositions)
          /\ \A k \in 1..Len(nodePositions) :
               /\ NormSq(nodePositions[k].basePosition) = 1005 * 1005
               /\ nodeView[k].base = nodePositions[k].basePosition
               /\ nodeView[k].angle = rotY)
  /\ [][\A k \in 1..Len(nodePositions) :
          /\ Len(nodePositions') >= Len(nodePositions)
          /\ nodePositions'[k].basePosition = nodePositions[k].basePosition]_vars

\* nodes rendered on a frame with a rotation that is not the one of the build
C14_Witness ==
  /\ variant = "random"
  /\ frameCount >= 2
  /\ rotY # 0
  /\ Len(nodeView) = nodeCount
  /\ \A k \in 1..Len(nodeView) : nodeView[k].angle = rotY

\* C15: initEarth runs at most once and is never undone, and once the loop
\* runs it never stops: a frame callback is always pending and every
\* invocation of animate is followed by another, whatever pointer, resize
\* and texture callbacks run in between: the frame count, which only grows
\* by one, goes from any value to every later one up to MaxFrames.
C15_LoopNeverStops ==
  /\ [](initRuns \in {0, 1})
  /\ [][initRuns' >= initRuns]_vars
  /\ [](frameCount >= 1 => (initRuns = 1 /\ rafPending >= 1))
  /\ [][frameCount' \in {frameCount, frameCount + 1}]_vars
  /\ (frameCount >= 1) ~> (frameCount = MaxFrames)

\* the loop runs after the pointer moved, the window was resized and the
\* texture callback ran
C15_Witness ==
  /\ initRuns = 1
  /\ frameCount = MaxFrames
  /\ texture \in {"loaded", "failed"}
  /\ winSize # <<innerWidth, innerHeight>>

\* C16: once initEarth has run, and so after every resize handler, the
\* camera aspect is window.innerWidth / window.innerHeight and the render
\* surface has the size of the window, and every frame is rendered at the
\* size the window has at that frame.
C16_ViewFollowsWindow ==
  /\ [](initRuns > 0 =>
          /\ cameraAspect = (winSize[1] * 1000) \div winSize[2]
          /\ rendererSize = winSize)
  /\ [][frameCount' # frameCount => renderedSize' = winSize']_vars

\* a frame rendered after the resize handler ran: the window no longer has
\* the width the build of part_002 read
C16_Witness ==
  /\ initRuns > 0
  /\ variant = "fib"
  /\ windowHalfX # winSize[1] \div 2
  /\ cameraAspect # (innerWidth * 1000) \div innerHeight
  /\ frameCount >= 2
  /\ renderedSize = winSize

\* C17: every invocation of animate issues one render and leaves exactly one
\* frame callback pending: before the first invocation nothing is pending
\* and nothing was rendered, from then on one callback is pending at every
\* moment and the number of renders is the number of frames.
C17_OneFrameOneRender ==
  /\ [](renders = frameCount)
  /\ [](rafPending = IF frameCount = 0 THEN 0 ELSE 1)
  /\ [][frameCount' # frameCount =>
          (frameCount' = frameCount + 1 /\ renders' = renders + 1)]_vars

\* the loop after MaxFrames invocations of animate
C17_Witness ==
  /\ BuildDone
  /\ pc = "idle"
  /\ frameCount = MaxFrames
  /\ renders = MaxFrames
  /\ rafPending = 1

\* the radius of the ring of a dot: 1.3 + 0.2 * ringIndex
RingRadius(dot) == ringRadiusBase + dot.ringIndex * ringRadiusStep

\* C18: on a frame with an even count every dot's angle grows by exactly
\* speed * 0.01 and the dot is put at that angle on its own ring, at the
\* ring's radius (within 2 percent of its square, the error of the sine
\* approximation); on a frame with an odd count angle and position are
\* unchanged; ringIndex, speed and inclination of a dot never change.
C18_SatellitesEveryOtherFrame ==
  [][/\ Len(satellites') >= Len(satellites)
     /\ \A k \in 1..Len(satellites) :
          /\ satellites'[k].ringIndex = satellites[k].ringIndex
          /\ satellites'[k].speed = satellites[k].speed
          /\ satellites'[k].inclination = satellites[k].inclination
          /\ satellites'[k].inclination
               = (satellites[k].ringIndex - 1) * inclinationStep
     /\ (frameCount' # frameCount /\ frameCount' % 2 = 0) =>
          \A k \in 1..Len(satellites) :
            /\ satellites'[k].angle = satellites[k].angle + satellites[k].speed
            /\ satellites'[k].position =
                 RingPoint(satellites[k].ringIndex, satellites[k].inclination,
                           satellites'[k].angle)
            /\ Abs(NormSq(satellites'[k].position)
                     - RingRadius(satellites[k]) * RingRadius(satellites[k]))
                 <= (RingRadius(satellites[k]) * RingRadius(satellites[k])) \div 50
     /\ (frameCount' % 2 # 0) => satellites' = satellites]_vars

\* dots of both rings after an even frame and the odd frame that follows it
C18_Witness ==
  /\ variant = "random"
  /\ frameCount = 3
  /\ \E k \in 1..Len(satellites) :
       satellites[k].ringIndex = 0 /\ satellites[k].position # <<0, 0, 0>>
  /\ \E k \in 1..Len(satellites) :
       satellites[k].ringIndex = 1 /\ satellites[k].position # <<0, 0, 0>>

\* v lies between a and b, ends included
Between(v, a, b) == (a <= v /\ v <= b) \/ (b <= v /\ v <= a)

\* the y rotation contributed by the pointer: what exceeds 0.0008 per frame
PointerY == rotY - frameCount * rotationStepFib

C20_TopologyFixed ==
  /\ [](\A k \in 1..Len(connections) :
          /\ connections[k].node1 \in 0..(Len(nodePositions) - 1)
          /\ connections[k].node2 \in 0..(Len(nodePositions) - 1))
  /\ [][/\ Len(connections') >= Len(connections)
        /\ \A k \in 1..Len(connections) : connections'[k] = connections[k]
        /\ BuildDone =>
             /\ Len(nodePositions') = Len(nodePositions)
             /\ Len(connections') = Len(connections)
             /\ Len(curves') = Len(curves)]_vars

\* a short connection and a long arc after MaxFrames frames and a resize
C20_Witness ==
  /\ variant = "random"
  /\ BuildDone
  /\ frameCount = MaxFrames
  /\ winSize # <<innerWidth, innerHeight>>
  /\ \E k \in ShortIdx : connections[k].node1 # connections[k].node2
  /\ \E k \in LongIdx : connections[k].node1 # connections[k].node2

\* C21: the load handler completes without throwing at every viewport
\* width: it calls setActiveNavLink, at a width of 768 or less it hides the
\* cursor dot and restores the native cursor, and the body gets the class
\* 'loaded'.
C21_LoadHandlerCompletes ==
  [][(~loadFired /\ loadFired') =>
       /\ loadNavRan'
       /\ ~loadThrew'
       /\ bodyLoaded'
       /\ winSize[1] <= mobileWidth => (cursorDotHidden' /\ bodyCursorAuto')]_vars

\* C21, for the wide viewport: above 768 the handler completes and the body
\* gets the class 'loaded'
C21_LoadHandlerCompletesWide ==
  [][(~loadFired /\ loadFired' /\ winSize[1] > mobileWidth) =>
       (loadNavRan' /\ ~loadThrew' /\ bodyLoaded' /\ ~cursorDotHidden')]_vars

\* C22: after every step of typeEffect the text shown is the prefix of
\* length charIndex of the current word, with charIndex between 0 and the
\* length of that word; a step changes charIndex by exactly one; and once
\* the script has run exactly one run of typeEffect is scheduled.
C22_TextIsPrefix ==
  /\ [](/\ charIndex \in 0..Len(typingWords[wordIndex + 1])
        /\ typingText = SubSeq(typingWords[wordIndex + 1], 1, charIndex)
        /\ typeTimers = IF enhancements THEN 1 ELSE 0)
  /\ [][typeVars' # typeVars /\ enhancements =>
          (charIndex' = charIndex + 1 \/ charIndex' = charIndex - 1)]_vars

\* the second word partly deleted
C22_Witness ==
  /\ wordIndex = 1
  /\ isDeleting
  /\ charIndex = 3
  /\ typingText = <<"C", "F", "D">>

\* C23: the words are shown in the order of the list, cyclically: isDeleting
\* is set only when the current word is shown whole and cleared only when
\* the text is empty, the word index moves only then and to the next index
\* modulo the number of words, a step adds a character while typing and
\* removes one while deleting, and every word is shown whole again and again.
C23_WordsInOrderForever ==
  /\ [][isDeleting' # isDeleting =>
          IF isDeleting'
            THEN /\ typingText' = typingWords[wordIndex + 1]
                 /\ wordIndex' = wordIndex
            ELSE /\ typingText' = <<>>
                 /\ wordIndex' = (wordIndex + 1) % Len(typingWords)]_vars
  /\ [][wordIndex' # wordIndex => isDeleting /\ ~isDeleting']_vars
  /\ [][typeVars' # typeVars /\ enhancements =>
          Len(typingText') =
            IF isDeleting THEN Len(typingText) - 1 ELSE Len(typingText) + 1]_vars
  /\ \A w \in 1..Len(typingWords) :
       []<>(wordIndex = w - 1 /\ typingText = typingWords[w])

\* the last word of the list shown whole, about to be deleted
C23_Witness ==
  /\ wordIndex = Len(typingWords) - 1
  /\ isDeleting
  /\ typingText = typingWords[Len(typingWords)]

\* C24: the hamburger and the container of the navigation links carry the
\* class active together or not at all; a click on the hamburger toggles
\* both; a click on a navigation link and the Escape key leave both without
\* it.
C24_MenuClassesAgree ==
  /\ [](hamburgerActive = navLinksActive)
  /\ [][HamburgerClick =>
          /\ hamburgerActive' = ~hamburgerActive
          /\ navLinksActive' = ~navLinksActive]_vars
  /\ [][(\E t \in BOOLEAN : NavLinkClick(t)) \/ KeyDown("Escape") =>
          ~hamburgerActive' /\ ~navLinksActive']_vars

\* the menu is open
C24_Witness == hamburgerActive /\ navLinksActive

\* C25: when the last timeout of the form has run, after any sequence of
\* submits, the button shows the label it had before the first submit, its
\* inline background is cleared and the form is reset.
C25_LabelRestoredAfterSubmits ==
  [][formTimers # <<>> /\ formTimers' = <<>> =>
       /\ buttonText' = sendLabel
       /\ buttonBackground' = ""
       /\ ~formFilled']_vars

\* C25, holding part: the timeout of a submit clears the background, resets
\* the form and writes the label that was shown when that submit happened.
C25_TimeoutRestoresCapturedLabel ==
  [][Len(formTimers') < Len(formTimers) =>
       /\ buttonText' = Head(formTimers)
       /\ buttonBackground' = ""
       /\ ~formFilled']_vars

\* C26: at most one updateOnScroll callback is pending, ticking is true
\* exactly while one is pending, a scroll event while ticking requests
\* nothing, and setActiveNavLink runs at most once per animation frame
\* however many scroll events arrive.
C26_NavLinkOncePerFrame ==
  /\ [](scrollRaf <= 1)
  /\ [](ticking <=> scrollRaf = 1)
  /\ [][ticking /\ scrollsInFrame' = scrollsInFrame + 1 =>
          scrollRaf' = scrollRaf]_vars
  /\ [](navRunsInFrame <= 1)

\* C26, holding part: the throttle itself; at most one callback is pending,
\* ticking tells whether one is, and a scroll event while ticking requests
\* nothing.
C26_ThrottleOneCallback ==
  /\ [](scrollRaf <= 1)
  /\ [](ticking <=> scrollRaf = 1)
  /\ [][ticking /\ scrollsInFrame' = scrollsInFrame + 1 =>
          scrollRaf' = scrollRaf]_vars

\* C27: the opacity that the pointer handlers give the dots of the trail
\* stays across frames; every dot is at 0 while the pointer is outside the
\* document and at 0.8 while it is over an interactive element.
C27_HandlerOpacityPersists ==
  /\ [](pointerOutside => \A i \in 1..trailCount : trailOpacity[i] = 0)
  /\ [](hovering => \A i \in 1..trailCount : trailOpacity[i] = hoverOpacity)

\* C27, holding part: the handlers write these opacities; they are there
\* right after the event.
C27_HandlersWriteOpacity ==
  /\ [][~pointerOutside /\ pointerOutside' =>
          \A i \in 1..trailCount : trailOpacity'[i] = 0]_vars
  /\ [][~hovering /\ hovering' =>
          \A i \in 1..trailCount : trailOpacity'[i] = hoverOpacity]_vars

\* C28: at every rendered frame, the first one after the build included,
\* every satellite dot lies on its ring at its current angle, and none is at
\* the origin.
C28_DotsOnRingsAtEveryFrame ==
  renders >= 1 =>
    \A k \in 1..Len(satellites) :
      /\ satellites[k].position # <<0, 0, 0>>
      /\ satellites[k].position =
           RingPoint(satellites[k].ringIndex, satellites[k].inclination,
                     satellites[k].angle)

\* C28, holding part: from the second rendered frame on every dot is on its
\* ring at its current angle.
C28_DotsOnRingsFromSecondFrame ==
  renders >= 2 =>
    \A k \in 1..Len(satellites) :
      /\ satellites[k].position # <<0, 0, 0>>
      /\ satellites[k].position =
           RingPoint(satellites[k].ringIndex, satellites[k].inclination,
                     satellites[k].angle)

\* C29: in the build of part_002 a pointer move to the centre of the window
\* as it is now, after any resizes, gives the offsets mouseX = 0, mouseY = 0.
C29_OffsetFromCurrentCentre ==
  [][MouseMove /\ client' = <<winSize[1] \div 2, winSize[2] \div 2>> =>
       mouseX' = 0 /\ mouseY' = 0]_vars

\* C29, holding part: while the window has the size it had when initEarth
\* ran, a pointer move to its centre gives the offsets 0, 0.
C29_OffsetFromCentreAtBuild ==
  [][/\ MouseMove
     /\ client' = <<winSize[1] \div 2, winSize[2] \div 2>>
     /\ windowHalfX = winSize[1] \div 2
     /\ windowHalfY = winSize[2] \div 2
     => mouseX' = 0 /\ mouseY' = 0]_vars

====
